---- MODULE Spec2Model ----
(***************************************************************************)
(* Level-assignment engine of JGV (src/JGV/Level.py, class Level).         *)
(*                                                                         *)
(* A Level instance is called once per annotation feature and puts it on   *)
(* the lowest free row of its strand's pool, or drops it.  The state is    *)
(* the instance's fields; the only operation is Level.__call__.            *)
(***************************************************************************)
EXTENDS Integers, Sequences, FiniteSets

\* ---- bounds of the model ------------------------------------------------
\* max_depth is drawn from 1..MaxDepth and offset from 0..MaxOffset.
MaxDepth == 2
MaxOffset == 1
\* Spec: any constructor arguments, any strand, coordinates 0..MaxCoord,
\* at most MaxCalls calls.
MaxCoord == 1
MaxCalls == 2
\* SpecStranded and SpecSorted: longer runs of "+" and "-" calls on an
\* instance that filters neither strand; SpecSorted keeps the starts
\* non-decreasing and draws coordinates from 0..SortedCoord.
PackCalls == 3
SortedCoord == 2

\* ---- values -------------------------------------------------------------
\* Strand values a caller may pass: the three documented ones and one that
\* is none of them.
Strands == {"+", "-", ".", "?"}
IDs == {"a", "b"}

\* Python's None, and a value that is not None.
None == << >>
Some(x) == <<x>>

pos_arrowstyle == "-|>,head_width=1,head_length=2"
neg_arrowstyle == "<|-,head_width=1,head_length=2"
unstrand_arrowstyle == "-"

VARIABLES
    max_depth,          \* self.max_depth
    offset,             \* self.offset
    filter_pos,         \* self.filter_pos
    filter_neg,         \* self.filter_neg
    filter_unstrand,    \* self.filter_unstrand
    level_dict,         \* self.level_dict: level -> last recorded end
    count,              \* self.count
    ret,                \* what the last call returned (None before any call)
    calls,              \* the calls made so far, with the level each got
    threads             \* per thread: where it is in a call, and its locals

vars == <<max_depth, offset, filter_pos, filter_neg, filter_unstrand,
          level_dict, count, ret, calls, threads>>

\* ---- Level.__init__ -----------------------------------------------------
\* The threads that may call one instance, and a thread that is in no call.
\* raced records that a level's entry was changed by another call between
\* this thread's test of the level and its write.
Threads == {"t1", "t2"}

Idle ==
    [pc |-> "idle", ID |-> "a", start |-> 0, end |-> 0, strand |-> "+",
     level |-> 0, seen |-> None, raced |-> FALSE]

EmptyDict == [l \in {} |-> 0]

EmptyCounter ==
    [all_features |-> 0, positive_features |-> 0,
     negative_features |-> 0, unstranded_features |-> 0]

Init ==
    /\ max_depth \in 1..MaxDepth
    /\ offset \in 0..MaxOffset
    /\ filter_pos \in BOOLEAN
    /\ filter_neg \in BOOLEAN
    /\ filter_unstrand \in BOOLEAN
    /\ level_dict = EmptyDict
    /\ count = EmptyCounter
    /\ ret = None
    /\ calls = << >>
    /\ threads = [t \in Threads |-> Idle]

\* Construction with the default filter_pos=False and filter_neg=False.
InitStranded == Init /\ ~filter_pos /\ ~filter_neg

\* ---- Level.min_level, Level.max_level, Level.n_level ---------------------
\* min() and max() of no keys raise ValueError.
ValueError == "ValueError"

\* (min_level_max: a variant that returns the largest key.)
min_level_max ==
    IF DOMAIN level_dict = {} THEN ValueError
    ELSE CHOOSE l \in DOMAIN level_dict : \A k \in DOMAIN level_dict : k <= l

min_level ==
    IF DOMAIN level_dict = {} THEN ValueError
    ELSE CHOOSE l \in DOMAIN level_dict : \A k \in DOMAIN level_dict : l <= k

max_level ==
    IF DOMAIN level_dict = {} THEN ValueError
    ELSE CHOOSE l \in DOMAIN level_dict : \A k \in DOMAIN level_dict : k <= l

n_level == Cardinality(DOMAIN level_dict)

\* ---- Level.__call__ -----------------------------------------------------
\* (enhanced_feature_swapped: a variant with start and end exchanged.)
enhanced_feature_swapped(ID, start, end, arrowstyle, level) ==
    [ID |-> ID, start |-> end, end |-> start,
     arrowstyle |-> arrowstyle, level |-> level]

enhanced_feature(ID, start, end, arrowstyle, level) ==
    [ID |-> ID, start |-> start, end |-> end,
     arrowstyle |-> arrowstyle, level |-> level]

\* self.level_dict[level] = end
\* (Put_max: a variant that only ever advances a recorded end.)
Put_max(d, level, end) ==
    [l \in (DOMAIN d) \cup {level} |->
        IF l = level
        THEN IF level \in DOMAIN d /\ d[level] > end THEN d[level] ELSE end
        ELSE d[l]]

\* (Put_fresh: a variant that forgets the other levels.)
Put_fresh(d, level, end) == [l \in {level} |-> end]

Put(d, level, end) ==
    [l \in (DOMAIN d) \cup {level} |-> IF l = level THEN end ELSE d[l]]

\* self.count[key] += 1
Incr(c, key) == [c EXCEPT ![key] = @ + 1]

\* "If level is empty or if the level is free at this position"
\* (Eligible_le, Eligible_gt, Eligible_noReuse: variants with the comparison
\* weakened, reversed or left out.)
Eligible_le(d, level, start) ==
    level \notin DOMAIN d \/ (d[level] + offset) <= start

Eligible_gt(d, level, start) ==
    level \notin DOMAIN d \/ (d[level] + offset) > start

Eligible_noReuse(d, level, start) ==
    level \notin DOMAIN d

Eligible(d, level, start) ==
    level \notin DOMAIN d \/ (d[level] + offset) < start

\* while level <= self.max_depth
\* (PosLoopCond_lt, PosLoopCond_over: variants that stop one level early or
\* one level late.)
PosLoopCond_lt(level) == level < max_depth

PosLoopCond_over(level) == level <= max_depth + 1

PosLoopCond(level) == level <= max_depth

\* while level >= -self.max_depth
NegLoopCond(level) == level >= -max_depth

\* (ScanPositive_desc: a variant that takes the highest eligible level.)
ScanPositive_desc(d, level, start) ==
    LET free == {l \in level..max_depth : Eligible(d, l, start)}
    IN IF free = {} THEN max_depth + 1
       ELSE CHOOSE l \in free : \A k \in free : k <= l

\* The value of level when the positive loop is left: the first eligible
\* level, or max_depth+1 when the loop condition fails.
RECURSIVE ScanPositive(_, _, _)
ScanPositive(d, level, start) ==
    IF PosLoopCond(level)
    THEN IF Eligible(d, level, start)
         THEN level
         ELSE ScanPositive(d, level + 1, start)
    ELSE level

\* (ScanNegative_abs: a variant that looks the level up by its magnitude.)
ScanNegative_abs(d, level, start) == -ScanPositive(d, -level, start)

RECURSIVE ScanNegative(_, _, _)
ScanNegative(d, level, start) ==
    IF NegLoopCond(level)
    THEN IF Eligible(d, level, start)
         THEN level
         ELSE ScanNegative(d, level - 1, start)
    ELSE level

\* How many times the loop body runs, that is how many levels are tested,
\* before the loop is left by the return or by its condition.
RECURSIVE TestsPositive(_, _, _)
TestsPositive(d, level, start) ==
    IF PosLoopCond(level)
    THEN IF Eligible(d, level, start)
         THEN 1
         ELSE 1 + TestsPositive(d, level + 1, start)
    ELSE 0

RECURSIVE TestsNegative(_, _, _)
TestsNegative(d, level, start) ==
    IF NegLoopCond(level)
    THEN IF Eligible(d, level, start)
         THEN 1
         ELSE 1 + TestsNegative(d, level - 1, start)
    ELSE 0

\* The branch conditions of the if / elif / elif chain.
\* (PositiveBranch_nofilter: a variant that ignores filter_pos.)
PositiveBranch_nofilter(strand) == strand = "+"

PositiveBranch(strand) == strand = "+" /\ ~filter_pos

NegativeBranch(strand) == strand = "-" /\ ~filter_neg

UnstrandBranch(strand) == strand = "." /\ ~filter_unstrand

\* The whole call as a function of the mutable fields and the arguments:
\* the fields after the call and the value returned.
Step(d, c, ID, start, end, strand) ==
    LET c1 == Incr(c, "all_features") IN
    IF PositiveBranch(strand)
    THEN LET c2 == Incr(c1, "positive_features")
             level == ScanPositive(d, 1, start)
         IN IF PosLoopCond(level)
            THEN [level_dict |-> Put(d, level, end), count |-> c2,
                  ret |-> Some(enhanced_feature(ID, start, end, pos_arrowstyle, level))]
            ELSE [level_dict |-> d, count |-> c2, ret |-> None]
    ELSE IF NegativeBranch(strand)
    THEN LET c2 == Incr(c1, "negative_features")
             level == ScanNegative(d, -1, start)
         IN IF NegLoopCond(level)
            THEN [level_dict |-> Put(d, level, end), count |-> c2,
                  ret |-> Some(enhanced_feature(ID, start, end, neg_arrowstyle, level))]
            ELSE [level_dict |-> d, count |-> c2, ret |-> None]
    ELSE IF UnstrandBranch(strand)
    THEN [level_dict |-> Put(d, 0, end),
          count |-> Incr(c1, "unstranded_features"),
          ret |-> Some(enhanced_feature(ID, start, end, unstrand_arrowstyle, 0))]
    ELSE [level_dict |-> d, count |-> c1, ret |-> None]

\* The number of levels a call tests.
Tested(d, start, strand) ==
    IF PositiveBranch(strand) THEN TestsPositive(d, 1, start)
    ELSE IF NegativeBranch(strand) THEN TestsNegative(d, -1, start)
    ELSE 0

\* The level of a returned value, as kept in the call history.
LevelOf(r) == IF r = None THEN None ELSE Some(r[1].level)

Call(ID, start, end, strand) ==
    LET s == Step(level_dict, count, ID, start, end, strand) IN
        /\ level_dict' = s.level_dict
        /\ count' = s.count
        /\ ret' = s.ret
        /\ calls' = Append(calls, [start |-> start, end |-> end,
                                   strand |-> strand, level |-> LevelOf(s.ret)])
        /\ UNCHANGED <<max_depth, offset, filter_pos, filter_neg, filter_unstrand,
                       threads>>

\* A call with any arguments (end >= start, as the feature source gives).
AnyCall ==
    /\ Len(calls) < MaxCalls
    /\ \E ID \in IDs, start \in 0..MaxCoord, strand \in Strands :
          \E end \in start..MaxCoord : Call(ID, start, end, strand)

\* A call for a feature of the positive or the negative strand.
StrandedCall ==
    /\ Len(calls) < PackCalls
    /\ \E ID \in IDs, start \in 0..MaxCoord, strand \in {"+", "-"} :
          \E end \in start..MaxCoord : Call(ID, start, end, strand)

\* A stranded call by a caller that keeps the documented precondition:
\* "Iterative call of the function has to be done with annotation features
\* sorted by start coordinates."
SortedCall ==
    /\ Len(calls) < PackCalls
    /\ \E ID \in IDs, start \in 0..SortedCoord, strand \in {"+", "-"} :
          /\ calls # << >> => calls[Len(calls)].start <= start
          /\ \E end \in start..SortedCoord : Call(ID, start, end, strand)

\* ---- Level.__call__, statement by statement, on several threads ---------
\* The entry of a level as a thread sees it.
Entry(d, level) == IF level \in DOMAIN d THEN Some(d[level]) ELSE None

Record(th, r) ==
    Append(calls, [start |-> th.start, end |-> th.end,
                   strand |-> th.strand, level |-> LevelOf(r)])

Config == <<max_depth, offset, filter_pos, filter_neg, filter_unstrand>>

\* Lines 107-112, 123-125, 135-140: count the call, choose the branch and
\* set level; the unstranded branch and the fall-through return at once.
Enter(t) ==
    /\ threads[t].pc = "idle"
    /\ Len(calls) + Cardinality({u \in Threads : threads[u].pc # "idle"}) < MaxCalls
    /\ \E ID \in IDs, start \in 0..MaxCoord, strand \in {"+", "-"} :
        \E end \in start..MaxCoord :
          LET th == [threads[t] EXCEPT !.ID = ID, !.start = start,
                                       !.end = end, !.strand = strand]
              c1 == Incr(count, "all_features")
          IN IF PositiveBranch(strand)
             THEN /\ count' = Incr(c1, "positive_features")
                  /\ threads' = [threads EXCEPT ![t] =
                                    [th EXCEPT !.pc = "loop", !.level = 1]]
                  /\ UNCHANGED <<level_dict, ret, calls>>
             ELSE IF NegativeBranch(strand)
             THEN /\ count' = Incr(c1, "negative_features")
                  /\ threads' = [threads EXCEPT ![t] =
                                    [th EXCEPT !.pc = "loop", !.level = -1]]
                  /\ UNCHANGED <<level_dict, ret, calls>>
             ELSE LET s == Step(level_dict, count, ID, start, end, strand)
                  IN /\ count' = s.count
                     /\ level_dict' = s.level_dict
                     /\ ret' = s.ret
                     /\ calls' = Record(th, s.ret)
                     /\ UNCHANGED threads
    /\ UNCHANGED Config

\* Lines 114-117 and 120, 127-130 and 133: the loop condition and the test
\* of one level; the write of line 118 (131) is a later step.
Test(t) ==
    LET th == threads[t]
        up == th.strand = "+"
        inLoop == IF up THEN PosLoopCond(th.level) ELSE NegLoopCond(th.level)
    IN /\ th.pc = "loop"
       /\ IF ~inLoop
          THEN /\ ret' = None
               /\ calls' = Record(th, None)
               /\ threads' = [threads EXCEPT ![t] =
                                 [Idle EXCEPT !.raced = th.raced]]
          ELSE IF Eligible(level_dict, th.level, th.start)
          THEN /\ threads' = [threads EXCEPT ![t] =
                                 [th EXCEPT !.pc = "write",
                                            !.seen = Entry(level_dict, th.level)]]
               /\ UNCHANGED <<ret, calls>>
          ELSE /\ threads' = [threads EXCEPT ![t] =
                                 [th EXCEPT !.level = IF up THEN @ + 1 ELSE @ - 1]]
               /\ UNCHANGED <<ret, calls>>
       /\ UNCHANGED <<level_dict, count>>
       /\ UNCHANGED Config

\* Lines 118-119, 131-132: record the end and return the feature.
Write(t) ==
    LET th == threads[t]
        r == Some(enhanced_feature(th.ID, th.start, th.end,
                    IF th.strand = "+" THEN pos_arrowstyle ELSE neg_arrowstyle,
                    th.level))
    IN /\ th.pc = "write"
       /\ level_dict' = Put(level_dict, th.level, th.end)
       /\ ret' = r
       /\ calls' = Record(th, r)
       /\ threads' = [threads EXCEPT ![t] =
              [Idle EXCEPT !.raced =
                  th.raced \/ Entry(level_dict, th.level) # th.seen]]
       /\ UNCHANGED count
       /\ UNCHANGED Config

Next == AnyCall

NextConcurrent == \E t \in Threads : Enter(t) \/ Test(t) \/ Write(t)

NextStranded == StrandedCall

NextSorted == SortedCall

Spec == Init /\ [][Next]_vars

SpecStranded == InitStranded /\ [][NextStranded]_vars

SpecSorted == InitStranded /\ [][NextSorted]_vars

SpecConcurrent == InitStranded /\ [][NextConcurrent]_vars

\* ==== properties =========================================================
\* Shorthands over the call history.
LastCall == calls[Len(calls)]
Assigned(i) == calls[i].level # None
LevelAt(i) == calls[i].level[1]
Calls == 1..Len(calls)
SetMax(S) == CHOOSE m \in S : \A x \in S : x <= m
Abs(n) == IF n < 0 THEN -n ELSE n

\* The eligibility rule as the specification words it: no recorded end yet,
\* or recorded_end + offset < start.
Free(d, l, start) == l \notin DOMAIN d \/ d[l] + offset < start
Occupied(d, l, start) == l \in DOMAIN d /\ d[l] + offset >= start
Returned(r, l) == r # None /\ r[1].level = l

\* ---- C1 -----------------------------------------------------------------
\* C1: a Plus call with filter_pos false gets the lowest level of
\* 1..max_depth that is free for its start (every lower level is occupied
\* and not free), and that level's recorded end becomes the feature's end;
\* the same for Minus with filter_neg false over -1..-max_depth, lowest
\* magnitude first.
C1_Step ==
    LET a == calls'[Len(calls')] IN
    /\ (a.strand = "+" /\ ~filter_pos) =>
         \A m \in 1..max_depth :
            (Free(level_dict, m, a.start)
             /\ \A k \in 1..(m - 1) : ~Free(level_dict, k, a.start))
            => /\ Returned(ret', m)
               /\ level_dict'[m] = a.end
               /\ \A k \in 1..(m - 1) : Occupied(level_dict, k, a.start)
    /\ (a.strand = "-" /\ ~filter_neg) =>
         \A m \in 1..max_depth :
            (Free(level_dict, -m, a.start)
             /\ \A k \in 1..(m - 1) : ~Free(level_dict, -k, a.start))
            => /\ Returned(ret', -m)
               /\ level_dict'[-m] = a.end
               /\ \A k \in 1..(m - 1) : Occupied(level_dict, -k, a.start)

C1_FirstFit == [][C1_Step]_vars

\* The scenario of the specification scaled to the model's coordinates:
\* three Plus features get levels 1, 2, 1 and level 1 ends at the third's end.
C1_Witness ==
    /\ Len(calls) = 3
    /\ max_depth = 2
    /\ \A i \in Calls : calls[i].strand = "+"
    /\ calls[1].level = Some(1)
    /\ calls[2].level = Some(2)
    /\ calls[3].level = Some(1)
    /\ level_dict[1] = calls[3].end
    /\ level_dict[2] = calls[2].end

\* ---- C2 -----------------------------------------------------------------
\* C2: when the calls come with non-decreasing start, any two features that
\* were assigned the same non-zero level, consecutive on it or not, keep
\* the spacing: the earlier one's end + offset is below the later one's
\* start.
C2_Spacing ==
    \A i \in Calls : \A j \in Calls :
        (i < j /\ Assigned(i) /\ Assigned(j)
         /\ LevelAt(i) = LevelAt(j) /\ LevelAt(i) # 0)
        => calls[i].end + offset < calls[j].start

\* Three features share one non-zero level, so the first and the third are
\* a pair that is not consecutive on it.
C2_Witness ==
    /\ Len(calls) = 3
    /\ \A i \in Calls : Assigned(i) /\ LevelAt(i) = LevelAt(1)
    /\ LevelAt(1) # 0

\* ---- C3 -----------------------------------------------------------------
\* C3: a call with strand "+", "-" or "." returns nothing exactly when its
\* class is filtered, or it is a "+" or "-" call and every level of its
\* pool within max_depth has a recorded end with recorded_end + offset >=
\* start; an unstranded call that is not filtered is never dropped.
Filtered(strand) ==
    \/ strand = "+" /\ filter_pos
    \/ strand = "-" /\ filter_neg
    \/ strand = "." /\ filter_unstrand

PoolFull(d, strand, start) ==
    \/ strand = "+" /\ \A l \in 1..max_depth : Occupied(d, l, start)
    \/ strand = "-" /\ \A l \in 1..max_depth : Occupied(d, -l, start)

C3_Step ==
    LET a == calls'[Len(calls')] IN
    a.strand \in {"+", "-", "."} =>
        ((ret' = None) <=>
            (Filtered(a.strand) \/ PoolFull(level_dict, a.strand, a.start)))

C3_Drop == [][C3_Step]_vars

\* A Plus call that is not filtered was dropped because its pool was full.
C3_Witness ==
    /\ Len(calls) >= 2
    /\ LastCall.strand = "+"
    /\ ~filter_pos
    /\ ret = None
    /\ \A l \in 1..max_depth : l \in DOMAIN level_dict

\* ---- C4 -----------------------------------------------------------------
\* C4: a call whose strand is none of "+", "-", "." made while
\* filter_unstrand is false increments the unstranded counter, sets level
\* 0's recorded end to the feature's end and returns level 0 with the
\* NoArrow style; it returns nothing only when filter_unstrand is true.
C4_Step ==
    LET a == calls'[Len(calls')] IN
    a.strand \notin {"+", "-", "."} =>
        IF filter_unstrand
        THEN ret' = None
        ELSE /\ count'.unstranded_features = count.unstranded_features + 1
             /\ 0 \in DOMAIN level_dict'
             /\ level_dict'[0] = a.end
             /\ Returned(ret', 0)
             /\ ret'[1].arrowstyle = unstrand_arrowstyle

C4_UnrecognizedIsUnstranded == [][C4_Step]_vars

\* ---- C5 -----------------------------------------------------------------
\* C5: every key of the level map and every level returned lies in
\* -max_depth..max_depth; Plus features only get levels 1..max_depth,
\* Minus features only -max_depth..-1, and level 0 only goes to unstranded
\* features.
C5_Bounds ==
    /\ DOMAIN level_dict \subseteq (-max_depth)..max_depth
    /\ \A i \in Calls : Assigned(i) =>
        /\ LevelAt(i) \in (-max_depth)..max_depth
        /\ calls[i].strand = "+" => LevelAt(i) \in 1..max_depth
        /\ calls[i].strand = "-" => LevelAt(i) \in (-max_depth)..(-1)
        /\ LevelAt(i) = 0 => calls[i].strand = "."

\* The outermost level of a pool of more than one level is in use.
C5_Witness ==
    /\ max_depth > 1
    /\ \E i \in Calls :
          /\ Assigned(i)
          /\ Abs(LevelAt(i)) = max_depth
          /\ LevelAt(i) \in DOMAIN level_dict

\* ---- C6 -----------------------------------------------------------------
\* C6: the all-features counter is the number of calls made; each class
\* counter is the number of calls of that strand made while the class is
\* not filtered, the ones dropped for overflow included.
Entered(strand, filtered) ==
    IF filtered THEN 0
    ELSE Cardinality({i \in Calls : calls[i].strand = strand})

C6_Counts ==
    /\ count.all_features = Len(calls)
    /\ count.positive_features = Entered("+", filter_pos)
    /\ count.negative_features = Entered("-", filter_neg)
    /\ count.unstranded_features = Entered(".", filter_unstrand)

\* The second scenario of the specification: with max_depth 1 the second of
\* two Plus features is dropped and both counters are 2.
C6_Witness ==
    /\ max_depth = 1
    /\ Len(calls) = 2
    /\ calls[1].strand = "+" /\ Assigned(1)
    /\ calls[2].strand = "+" /\ ~Assigned(2)
    /\ count.positive_features = 2
    /\ count.all_features = 2

\* ---- C7 -----------------------------------------------------------------
\* The highest row in use on a strand's side (0 when none is).
Highest(strand) ==
    SetMax({0} \cup {Abs(LevelAt(i)) :
                        i \in {k \in Calls : calls[k].strand = strand /\ Assigned(k)}})

\* How many features of a strand presented so far are open at coordinate x,
\* each interval being [start, end + pad], and the most at any coordinate.
OpenAt(strand, x, pad) ==
    Cardinality({i \in Calls : /\ calls[i].strand = strand
                               /\ calls[i].start <= x
                               /\ x <= calls[i].end + pad})

MaxOpen(strand, pad) ==
    SetMax({OpenAt(strand, x, pad) : x \in 0..(SortedCoord + pad)})

\* C7 as stated: with non-decreasing starts, the highest level in use on a
\* strand's side never exceeds the largest number of presented features of
\* that strand whose intervals [start, end] share a coordinate, nor
\* max_depth.
C7_Original ==
    /\ Highest("+") <= MaxOpen("+", 0)
    /\ Highest("+") <= max_depth
    /\ Highest("-") <= MaxOpen("-", 0)
    /\ Highest("-") <= max_depth

\* C7 amended: the same with every interval widened by the spacing,
\* [start, end + offset].
C7_RowsWithinOpenPadded ==
    /\ Highest("+") <= MaxOpen("+", offset)
    /\ Highest("+") <= max_depth
    /\ Highest("-") <= MaxOpen("-", offset)
    /\ Highest("-") <= max_depth

\* Three Plus features use two rows, one of them twice, and two of the
\* widened intervals are open together: the bound is met.
C7_Witness ==
    /\ Len(calls) = 3
    /\ \A i \in Calls : calls[i].strand = "+" /\ Assigned(i)
    /\ Highest("+") = 2
    /\ MaxOpen("+", offset) = 2
    /\ \E i \in Calls : \E j \in Calls : i < j /\ LevelAt(i) = LevelAt(j)

\* ---- C8 -----------------------------------------------------------------
\* C8 as stated: the level map is empty at construction, no key is ever
\* removed, and no key's recorded end ever decreases.
C8_OriginalStep ==
    \A l \in DOMAIN level_dict :
        l \in DOMAIN level_dict' /\ level_dict'[l] >= level_dict[l]

C8_Original == (level_dict = EmptyDict) /\ [][C8_OriginalStep]_vars

\* C8 amended: the level map is empty at construction, no key is ever
\* removed, and the recorded end of every non-zero level never decreases.
C8_Step ==
    \A l \in DOMAIN level_dict :
        /\ l \in DOMAIN level_dict'
        /\ l # 0 => level_dict'[l] >= level_dict[l]

C8_Monotonic == (level_dict = EmptyDict) /\ [][C8_Step]_vars

\* A non-zero level was given out twice, so its recorded end has moved.
C8_Witness ==
    \E i \in Calls : \E j \in Calls :
        /\ i < j /\ Assigned(i) /\ Assigned(j)
        /\ LevelAt(i) = LevelAt(j) /\ LevelAt(i) # 0
        /\ level_dict[LevelAt(j)] = calls[j].end
        /\ calls[j].end > calls[i].end

\* ---- C9 -----------------------------------------------------------------
\* C9: with filter_unstrand false every unstranded call returns level 0 and
\* leaves level 0's recorded end at its own end, and what a second
\* unstranded call returns does not depend on the end the first one
\* recorded.
C9_Step ==
    LET a == calls'[Len(calls')] IN
    (a.strand = "." /\ ~filter_unstrand) =>
        /\ Returned(ret', 0)
        /\ 0 \in DOMAIN level_dict'
        /\ level_dict'[0] = a.end
        /\ \A e \in 0..MaxCoord :
              LET r == Step(Put(level_dict, 0, e), count,
                            ret'[1].ID, a.start, a.end, ".")
              IN r.ret = ret' /\ r.level_dict[0] = a.end

C9_UnstrandedOverwrite == [][C9_Step]_vars

\* Two unstranded calls in a row, the second ending before the first: both
\* got level 0 and the recorded end went down to the second's end.
C9_Witness ==
    \E i \in Calls :
        /\ i + 1 \in Calls
        /\ calls[i].strand = "." /\ calls[i].level = Some(0)
        /\ calls[i + 1].strand = "." /\ calls[i + 1].level = Some(0)
        /\ calls[i + 1].end < calls[i].end
        /\ i + 1 = Len(calls)
        /\ level_dict[0] = calls[i + 1].end

\* ---- C10 ----------------------------------------------------------------
\* C10: in every reachable state each class that is not filtered still has
\* a feature that would be assigned, and once a Plus (Minus) feature was
\* dropped for overflow, a later Plus (Minus) call whose start is above
\* level 1's (level -1's) recorded end + offset gets level 1 (level -1).
WouldAssign(strand) ==
    \E start \in 0..(MaxCoord + MaxOffset + 1) :
        Step(level_dict, count, "a", start, start, strand).ret # None

C10_Assignable ==
    /\ ~filter_pos => WouldAssign("+")
    /\ ~filter_neg => WouldAssign("-")
    /\ ~filter_unstrand => WouldAssign(".")

Overflowed(strand, filtered) ==
    ~filtered /\ \E i \in Calls : calls[i].strand = strand /\ ~Assigned(i)

C10_Step ==
    LET a == calls'[Len(calls')] IN
    /\ (Overflowed("+", filter_pos) /\ a.strand = "+"
        /\ 1 \in DOMAIN level_dict /\ a.start > level_dict[1] + offset)
       => Returned(ret', 1)
    /\ (Overflowed("-", filter_neg) /\ a.strand = "-"
        /\ -1 \in DOMAIN level_dict /\ a.start > level_dict[-1] + offset)
       => Returned(ret', -1)

C10_NoTerminalState == []C10_Assignable /\ [][C10_Step]_vars

\* A Plus feature was dropped with the pool full, and a later Plus feature
\* was put on level 1.
C10_Witness ==
    \E i \in Calls : \E j \in Calls :
        /\ i < j
        /\ ~filter_pos
        /\ calls[i].strand = "+" /\ ~Assigned(i)
        /\ calls[j].strand = "+" /\ calls[j].level = Some(1)

\* ---- C11 ----------------------------------------------------------------
\* The levels of a strand's pool, and a level map cut down to or freed from
\* a set of levels.
Pool(strand) ==
    IF strand = "+" THEN 1..max_depth
    ELSE IF strand = "-" THEN (-max_depth)..(-1)
    ELSE {0}
Within(d, P) == [l \in (DOMAIN d) \cap P |-> d[l]]
Outside(d, P) == [l \in (DOMAIN d) \ P |-> d[l]]

\* The levels a fresh instance with the same options gives to a sequence
\* of calls.
RECURSIVE Run(_)
Run(seq) ==
    IF seq = << >>
    THEN [level_dict |-> EmptyDict, levels |-> << >>]
    ELSE LET before == Run(SubSeq(seq, 1, Len(seq) - 1))
             a == seq[Len(seq)]
             s == Step(before.level_dict, EmptyCounter, "a",
                       a.start, a.end, a.strand)
         IN [level_dict |-> s.level_dict,
             levels |-> Append(before.levels, LevelOf(s.ret))]

IsPlus(c) == c.strand = "+"
IsMinus(c) == c.strand = "-"
LevelsOf(seq) == [i \in 1..Len(seq) |-> seq[i].level]

\* C11: a call of strand "+", "-" or "." leaves every level outside its
\* own pool as it was and gets the same outcome when the level map holds
\* its own pool only; so every Plus call gets the level (or the drop) it
\* would get if the Plus calls had been made alone, and so does every
\* Minus call.
C11_Step ==
    LET a == calls'[Len(calls')]
        P == Pool(a.strand)
    IN a.strand \in {"+", "-", "."} =>
        /\ Outside(level_dict', P) = Outside(level_dict, P)
        /\ LevelOf(Step(Within(level_dict, P), count, "a",
                        a.start, a.end, a.strand).ret) = a.level

C11_Alone ==
    /\ LevelsOf(SelectSeq(calls, IsPlus)) = Run(SelectSeq(calls, IsPlus)).levels
    /\ LevelsOf(SelectSeq(calls, IsMinus)) = Run(SelectSeq(calls, IsMinus)).levels

C11_PoolIndependence == []C11_Alone /\ [][C11_Step]_vars

\* A Plus call was assigned after a call of another class had been
\* assigned and had left its recorded end in the level map.
C11_Witness ==
    /\ \E i \in Calls : \E j \in Calls :
          /\ i < j
          /\ calls[i].strand \in {"-", "."} /\ Assigned(i)
          /\ calls[j].strand = "+" /\ Assigned(j)
          /\ Outside(level_dict, Pool("+")) # EmptyDict

\* ---- C12 ----------------------------------------------------------------
\* The counters a call must leave: all_features one up, and the class
\* counter one up when the call's strand is that class's and the class is
\* not filtered.
CountedAs(c, strand) ==
    [c EXCEPT
       !.all_features = @ + 1,
       !.positive_features = IF strand = "+" /\ ~filter_pos THEN @ + 1 ELSE @,
       !.negative_features = IF strand = "-" /\ ~filter_neg THEN @ + 1 ELSE @,
       !.unstranded_features = IF strand = "." /\ ~filter_unstrand THEN @ + 1 ELSE @]

\* C12: a call that returns nothing leaves the level map exactly as it was
\* and changes only the all-features counter and, for an overflow drop, the
\* class counter; a call that returns a feature writes the returned level's
\* entry and no other entry of the level map.
C12_Step ==
    LET a == calls'[Len(calls')] IN
    /\ ret' = None =>
          /\ level_dict' = level_dict
          /\ count' = CountedAs(count, a.strand)
    /\ ret' # None =>
          /\ ret'[1].level \in DOMAIN level_dict'
          /\ level_dict'[ret'[1].level] = a.end
          /\ Outside(level_dict', {ret'[1].level})
               = Outside(level_dict, {ret'[1].level})

C12_Frame == [][C12_Step]_vars

\* A Minus call was dropped for overflow: the level map still holds the
\* first call's end, and the negative counter is 2.
C12_Witness ==
    /\ Len(calls) = 2
    /\ calls[1].strand = "-" /\ calls[1].level = Some(-1)
    /\ calls[2].strand = "-" /\ ~Assigned(2)
    /\ ret = None
    /\ level_dict = Put(EmptyDict, -1, calls[1].end)
    /\ count.negative_features = 2

\* ---- C13 ----------------------------------------------------------------
ArrowStyles == {pos_arrowstyle, neg_arrowstyle, unstrand_arrowstyle}

\* C13: from every reachable state a call can be made, and every call,
\* whatever its strand and coordinates, tests at most max_depth levels and
\* ends in one of two outcomes: nothing, or one feature with a level and a
\* style.
C13_Step ==
    LET a == calls'[Len(calls')] IN
    /\ Tested(level_dict, a.start, a.strand) <= max_depth
    /\ \/ ret' = None
       \/ /\ Len(ret') = 1
          /\ ret'[1].level \in (-max_depth)..max_depth
          /\ ret'[1].arrowstyle \in ArrowStyles

C13_CanCall == Len(calls) < MaxCalls => ENABLED Next

C13_Total == []C13_CanCall /\ [][C13_Step]_vars

\* A call tested every level of its pool, found none free and returned
\* nothing.
C13_Witness ==
    /\ Len(calls) >= 2
    /\ LastCall.strand \in {"+", "-"}
    /\ Tested(level_dict, LastCall.start, LastCall.strand) = max_depth
    /\ ret = None

\* ---- C14 ----------------------------------------------------------------
\* The style the sign of a level stands for.
StyleOf(level) ==
    IF level > 0 THEN pos_arrowstyle
    ELSE IF level < 0 THEN neg_arrowstyle
    ELSE unstrand_arrowstyle

\* C14: a call returns at most one feature; a returned feature carries the
\* start and end of the call unchanged and, whichever ID the call is made
\* with, that ID; its style is PlusArrow exactly for a level above 0,
\* MinusArrow exactly for a level below 0 and NoArrow exactly for level 0.
C14_Step ==
    LET a == calls'[Len(calls')] IN
    /\ Len(ret') <= 1
    /\ ret' # None =>
          /\ ret'[1].start = a.start
          /\ ret'[1].end = a.end
          /\ ret'[1].arrowstyle = StyleOf(ret'[1].level)
          /\ a.level = Some(ret'[1].level)
    /\ \A ID \in IDs :
          LET r == Step(level_dict, count, ID, a.start, a.end, a.strand).ret
          IN /\ (r = None) <=> (ret' = None)
             /\ r # None => r[1].ID = ID /\ r = Some([ret'[1] EXCEPT !.ID = ID])
    /\ ret' # None => ret'[1].ID \in IDs

C14_Output == [][C14_Step]_vars

\* A feature longer than one coordinate was returned on a negative level
\* after one was returned on level 0.
C14_Witness ==
    /\ Len(calls) = 2
    /\ calls[1].level = Some(0)
    /\ ret # None
    /\ ret[1].level < 0
    /\ ret[1].arrowstyle = neg_arrowstyle
    /\ ret[1].start < ret[1].end
    /\ ret[1].ID = "b"

\* ---- C16 ----------------------------------------------------------------
\* The calls that were put on a level.
OnLevel(l) == {i \in Calls : Assigned(i) /\ LevelAt(i) = l}

\* C16: in whatever order the starts come, any two features put on the
\* same non-zero level keep the spacing, earlier end + offset < later
\* start, and the recorded end of every non-zero level is the largest end
\* of the features put on it.
C16_AnyOrder ==
    \A l \in ((-max_depth)..max_depth) \ {0} :
        /\ \A i \in OnLevel(l) : \A j \in OnLevel(l) :
              i < j => calls[i].end + offset < calls[j].start
        /\ l \in DOMAIN level_dict <=> OnLevel(l) # {}
        /\ l \in DOMAIN level_dict =>
              level_dict[l] = SetMax({calls[i].end : i \in OnLevel(l)})

\* The starts came out of order, one feature went to a second row, and a
\* row was used twice.
C16_Witness ==
    /\ \E i \in Calls : \E j \in Calls :
          i < j /\ calls[j].start < calls[i].start
    /\ \E l \in {1, -1} : Cardinality(OnLevel(l)) = 2
    /\ \E i \in Calls : Assigned(i) /\ Abs(LevelAt(i)) = 2

\* ---- C17 ----------------------------------------------------------------
\* C17: the levels that have a recorded end form an unbroken run from 1
\* upwards and from -1 downwards: when level k > 1 has one, so has k - 1,
\* and when level -k has one, so has -(k - 1); hence n_level is at most
\* 2 * max_depth + 1.
C17_Prefix ==
    /\ \A k \in 2..max_depth :
          /\ k \in DOMAIN level_dict => (k - 1) \in DOMAIN level_dict
          /\ (-k) \in DOMAIN level_dict => (-(k - 1)) \in DOMAIN level_dict
    /\ \A l \in DOMAIN level_dict : l > 0 => l <= max_depth
    /\ \A l \in DOMAIN level_dict : l < 0 => -l <= max_depth
    /\ n_level <= 2 * max_depth + 1

\* A second level of a pool is in use, on top of the first.
C17_Witness ==
    /\ \E k \in {2, -2} : k \in DOMAIN level_dict
    /\ n_level = 2

\* ---- C18 ----------------------------------------------------------------
\* The levels the calls made so far have returned.
LevelsReturned == {LevelAt(i) : i \in {k \in Calls : Assigned(k)}}

Collision ==
    \E i \in Calls : \E j \in Calls :
        /\ i < j /\ Assigned(i) /\ Assigned(j)
        /\ LevelAt(i) = LevelAt(j) /\ LevelAt(i) # 0
        /\ calls[i].end + offset >= calls[j].start

\* C15: when calls on one instance may interleave between the test of a
\* level and the write of its recorded end, two features of one strand can
\* end up on the same non-zero level without the spacing; as long as no
\* call was interleaved in that way, they cannot.
C15_Serialized ==
    (\A t \in Threads : ~threads[t].raced) => ~Collision

\* Both threads tested the same level before either wrote it, and the two
\* features now collide on it.
C15_Witness ==
    /\ Collision
    /\ Len(calls) = 2
    /\ \E t \in Threads : threads[t].raced

====
